---- MODULE Spec2Model ----
(***************************************************************************)
(* HomePOD dashboard server (homepod_server_v3.py, with the sensor routes  *)
(* it shares with homepod_server_v2.py).                                   *)
(*                                                                         *)
(* State: the module-level globals of the server (todo_list, notes_list,   *)
(* timers_list, music_queue, latest_readings, weather_cache), the four     *)
(* JSON data files, the sensor log file and the wall clock.  One action    *)
(* per Flask route.  JSON text is modelled as a sequence of tokens:        *)
(* json.dump writes it, json.load parses it back.                          *)
(***************************************************************************)
EXTENDS Integers, Sequences, FiniteSets, TLC

VARIABLES
    todo_list,        \* global todo_list: list of {'id','text','completed'}
    notes_list,       \* global notes_list: list of {'id','title','content','created'}
    timers_list,      \* global timers_list: list of {'id','name','duration','running','start_time'}
    music_queue,      \* global music_queue: {'queue','current_index','is_playing'}
    todo_file,        \* TODO_FILE   "todo_data.json"
    notes_file,       \* NOTES_FILE  "notes_data.json"
    timers_file,      \* TIMERS_FILE "timers_data.json"
    music_file,       \* MUSIC_FILE  "music_queue.json"
    latest_readings,  \* global latest_readings: device name -> last stored payload
    sensor_log,       \* DATA_LOG_FILE: the lines appended by this process
    weather_cache,    \* global weather_cache: data, forecast, last_update
    now,              \* the wall clock read by time.time() / datetime.now()
    next_id,          \* number of uuid4() values drawn so far
    resp,             \* the request handled last and its response
    accepted,         \* history: device name -> payload of its last request answered 200
    count200,         \* history: number of POST /sensor-data answered 200
    stored_at,        \* history: device name -> clock when its reading was stored
    fetched_at,       \* history: clock of the last fetch whose two requests were answered
    served,           \* history: ids appended and ids asked to be deleted by /todo requests
    pc,               \* threaded server: position of each request thread
    loc               \* threaded server: locals of each request thread

vars == <<todo_list, notes_list, timers_list, music_queue,
          todo_file, notes_file, timers_file, music_file,
          latest_readings, sensor_log, weather_cache, now, next_id, resp,
          accepted, count200, stored_at, fetched_at, served, pc, loc>>

appMem   == <<todo_list, notes_list, timers_list, music_queue>>
appFiles == <<todo_file, notes_file, timers_file, music_file>>
sensorVars == <<latest_readings, sensor_log, accepted, count200, stored_at>>
threadVars == <<pc, loc, served>>

(***************************************************************************)
(* Bounds of the model.                                                    *)
(***************************************************************************)
MaxOps   == 2      \* requests of one run that draw a uuid or append a log line
MaxTicks == 2      \* clock steps of one run

(***************************************************************************)
(* Inputs a client can send.                                               *)
(***************************************************************************)
\* str(uuid.uuid4()): the n-th value drawn; all values are distinct
UuidPool == <<"u1", "u2", "u3", "u4", "u5", "u6">>
Uuid(n) == UuidPool[n]
\* ids a client can put in a URL: ids that were handed out, and one that never was
PathIds == {UuidPool[i] : i \in 1..MaxOps} \cup {"nope"}
\* form field values: absent or empty, whitespace only, a padded text
FormTexts == {"", " ", " milk "}
\* str.strip() on the form values above
Strip(s) == CASE s = " "      -> ""
              [] s = " milk " -> "milk"
              [] OTHER        -> s

(***************************************************************************)
(* JSON text as tokens.  json.dump: a str is the pair "str", s; an int is  *)
(* "num", an optional "-", its decimal digits, "end"; True/False are       *)
(* "true"/"false"; lists and dicts use "[" "," "]" and "{" ":" "," "}".    *)
(***************************************************************************)
DigitTok == <<"0", "1", "2", "3", "4", "5", "6", "7", "8", "9">>
IsDigit(t) == \E d \in 1..10 : DigitTok[d] = t
DigitVal(t) == (CHOOSE d \in 1..10 : DigitTok[d] = t) - 1

RECURSIVE Digits(_)
Digits(n) == IF n < 10 THEN <<DigitTok[n + 1]>>
             ELSE Digits(n \div 10) \o <<DigitTok[(n % 10) + 1]>>

DumpStr(s)  == <<"str", s>>
DumpBool(b) == IF b THEN <<"true">> ELSE <<"false">>
DumpInt(n)  == <<"num">> \o (IF n < 0 THEN <<"-">> \o Digits(0 - n) ELSE Digits(n)) \o <<"end">>
DumpPair(k, v) == DumpStr(k) \o <<":">> \o v

RECURSIVE Join(_)
Join(parts) == IF parts = <<>> THEN <<>>
               ELSE IF Len(parts) = 1 THEN parts[1]
               ELSE parts[1] \o <<",">> \o Join(Tail(parts))
DumpList(parts) == <<"[">> \o Join(parts) \o <<"]">>
DumpDict(pairs) == <<"{">> \o Join(pairs) \o <<"}">>

\* json.dump of the four shapes the server keeps; item.get(k, default) is not
\* involved: every item the handlers build has all its keys
DumpTodo(it) == DumpDict(<<DumpPair("id", DumpStr(it.id)),
                           DumpPair("text", DumpStr(it.text)),
                           DumpPair("completed", DumpBool(it.completed))>>)
DumpNote(n) == DumpDict(<<DumpPair("id", DumpStr(n.id)),
                          DumpPair("title", DumpStr(n.title)),
                          DumpPair("content", DumpStr(n.content)),
                          DumpPair("created", DumpStr(n.created))>>)
\* mutant: json.dump that writes every start_time as 0
DumpTimer_zero_start(t) == DumpDict(<<DumpPair("id", DumpStr(t.id)),
                           DumpPair("name", DumpStr(t.name)),
                           DumpPair("duration", DumpInt(t.duration)),
                           DumpPair("running", DumpBool(t.running)),
                           DumpPair("start_time", DumpInt(0))>>)
DumpTimer(t) == DumpDict(<<DumpPair("id", DumpStr(t.id)),
                           DumpPair("name", DumpStr(t.name)),
                           DumpPair("duration", DumpInt(t.duration)),
                           DumpPair("running", DumpBool(t.running)),
                           DumpPair("start_time", DumpInt(t.start_time))>>)
DumpTrack(t) == DumpDict(<<DumpPair("id", DumpStr(t.id)),
                           DumpPair("title", DumpStr(t.title)),
                           DumpPair("artist", DumpStr(t.artist))>>)
DumpTodos(l)  == DumpList([i \in 1..Len(l) |-> DumpTodo(l[i])])
DumpNotes(l)  == DumpList([i \in 1..Len(l) |-> DumpNote(l[i])])
DumpTimers(l) == DumpList([i \in 1..Len(l) |-> DumpTimer(l[i])])
DumpMusic(m)  == DumpDict(<<DumpPair("queue", DumpList([i \in 1..Len(m.queue) |-> DumpTrack(m.queue[i])])),
                            DumpPair("current_index", DumpInt(m.current_index)),
                            DumpPair("is_playing", DumpBool(m.is_playing))>>)

\* json.load: a recursive-descent parse of the tokens
ParseFail == [ok |-> FALSE, val |-> <<>>, next |-> 0]
Parsed(v, n) == [ok |-> TRUE, val |-> v, next |-> n]
Tok(toks, p) == IF p >= 1 /\ p <= Len(toks) THEN toks[p] ELSE "EOF"

RECURSIVE ParseDigits(_, _, _, _)
ParseDigits(toks, p, acc, seen) ==
    LET t == Tok(toks, p) IN
    IF IsDigit(t) THEN ParseDigits(toks, p + 1, acc * 10 + DigitVal(t), TRUE)
    ELSE IF t = "end" /\ seen THEN Parsed(acc, p + 1)
    ELSE ParseFail

ParseNumber(toks, p) ==
    IF Tok(toks, p) = "-"
    THEN LET r == ParseDigits(toks, p + 1, 0, FALSE) IN
         IF r.ok THEN Parsed(0 - r.val, r.next) ELSE ParseFail
    ELSE ParseDigits(toks, p, 0, FALSE)

RECURSIVE ParseValue(_, _), ParseElements(_, _, _), ParseMembers(_, _, _)
ParseValue(toks, p) ==
    LET t == Tok(toks, p) IN
    CASE t = "true"  -> Parsed(TRUE, p + 1)
      [] t = "false" -> Parsed(FALSE, p + 1)
      [] t = "str"   -> IF p + 1 <= Len(toks) THEN Parsed(toks[p + 1], p + 2) ELSE ParseFail
      [] t = "num"   -> ParseNumber(toks, p + 1)
      [] t = "["     -> IF Tok(toks, p + 1) = "]" THEN Parsed(<<>>, p + 2)
                        ELSE ParseElements(toks, p + 1, <<>>)
      [] t = "{"     -> IF Tok(toks, p + 1) = "}" THEN Parsed(<<>>, p + 2)
                        ELSE ParseMembers(toks, p + 1, <<>>)
      [] OTHER       -> ParseFail

ParseElements(toks, p, acc) ==
    LET r == ParseValue(toks, p) IN
    IF ~r.ok THEN ParseFail
    ELSE LET t == Tok(toks, r.next) IN
         IF t = "," THEN ParseElements(toks, r.next + 1, Append(acc, r.val))
         ELSE IF t = "]" THEN Parsed(Append(acc, r.val), r.next + 1)
         ELSE ParseFail

ParseMembers(toks, p, acc) ==
    IF Tok(toks, p) # "str" \/ p + 2 > Len(toks) \/ Tok(toks, p + 2) # ":" THEN ParseFail
    ELSE LET k == toks[p + 1]
             r == ParseValue(toks, p + 3) IN
         IF ~r.ok THEN ParseFail
         ELSE LET t == Tok(toks, r.next)
                  d == (k :> r.val) @@ acc IN
              IF t = "," THEN ParseMembers(toks, r.next + 1, d)
              ELSE IF t = "}" THEN Parsed(d, r.next + 1)
              ELSE ParseFail

\* json.load(f): one value, then the end of the file
JsonLoad(toks) ==
    LET r == ParseValue(toks, 1) IN
    IF r.ok /\ r.next = Len(toks) + 1 THEN r ELSE ParseFail

(***************************************************************************)
(* Data files.  A file is missing or holds a text.                         *)
(***************************************************************************)
MissingFile == [exists |-> FALSE, text |-> <<>>]
FileOf(toks) == [exists |-> TRUE, text |-> toks]
\* texts json.load rejects: an empty file, a file cut short
CorruptTexts == {<<>>, <<"[", "{", "str", "id", ":">>}
StartFiles == {MissingFile} \cup {FileOf(t) : t \in CorruptTexts}

\* the outcome of a load function: the value it returns, or an exception
Returned(v) == [raised |-> FALSE, val |-> v]
Raised == [raised |-> TRUE, val |-> <<>>]

DefaultMusic == [queue |-> <<>>, current_index |-> 0, is_playing |-> FALSE]

\* def load_todos(): if os.path.exists(TODO_FILE): try: return json.load(f)
\*                   except: return []  /  return []
load_todos(file) ==
    IF file.exists
    THEN LET r == JsonLoad(file.text) IN
         IF r.ok THEN Returned(r.val) ELSE Returned(<<>>)
    ELSE Returned(<<>>)

load_notes(file) ==
    IF file.exists
    THEN LET r == JsonLoad(file.text) IN
         IF r.ok THEN Returned(r.val) ELSE Returned(<<>>)
    ELSE Returned(<<>>)

load_timers(file) ==
    IF file.exists
    THEN LET r == JsonLoad(file.text) IN
         IF r.ok THEN Returned(r.val) ELSE Returned(<<>>)
    ELSE Returned(<<>>)

\* mutant: load_music_queue without its try/except
load_music_queue_noexcept(file) ==
    IF file.exists
    THEN LET r == JsonLoad(file.text) IN
         IF r.ok THEN Returned(r.val) ELSE Raised
    ELSE Returned(DefaultMusic)

load_music_queue(file) ==
    IF file.exists
    THEN LET r == JsonLoad(file.text) IN
         IF r.ok THEN Returned(r.val) ELSE Returned(DefaultMusic)
    ELSE Returned(DefaultMusic)

\* with open(F, 'w') as f: json.dump(x, f)
save_todos(todos)   == FileOf(DumpTodos(todos))
save_notes(notes)   == FileOf(DumpNotes(notes))
save_timers(timers) == FileOf(DumpTimers(timers))
save_music_queue(music_data) == FileOf(DumpMusic(music_data))

(***************************************************************************)
(* The clock.  datetime.now().strftime('%Y-%m-%d %H:%M:%S') has a fixed    *)
(* width with leading zeros; the model writes the clock the same way,      *)
(* as StampWidth decimal digits.                                           *)
(***************************************************************************)
StartTime  == 700
StampWidth == 4
TickStep   == 300

RECURSIVE ZeroPad(_, _)
ZeroPad(ds, w) == IF Len(ds) >= w THEN ds ELSE ZeroPad(<<"0">> \o ds, w)
\* mutant: a time format without leading zeros
strftime_unpadded(t) == Digits(t)
strftime(t) == ZeroPad(Digits(t), StampWidth)

\* Python's str comparison a > b: by the first character that differs, a proper
\* prefix being the smaller
RECURSIVE StrGreater(_, _)
StrGreater(a, b) ==
    IF a = <<>> THEN FALSE
    ELSE IF b = <<>> THEN TRUE
    ELSE IF a[1] # b[1] THEN DigitVal(a[1]) > DigitVal(b[1])
    ELSE StrGreater(Tail(a), Tail(b))

\* requests of one run that make the state grow: uuids drawn, log lines
Ops == next_id + Len(sensor_log)

(***************************************************************************)
(* Responses.                                                              *)
(***************************************************************************)
\* redirect(to)
\* return redirect(to), at the end of a POST handler and of a GET handler
Redirect(to)     == [method |-> "POST", status |-> 302, to |-> to]
RedirectGet(to)  == [method |-> "GET", status |-> 302, to |-> to]
\* return html
Page(op)         == [method |-> "GET", op |-> op, status |-> 200]
\* an exception leaves the handler: Flask answers 500
ServerError(method, op) == [method |-> method, op |-> op, status |-> 500]

\* index of the first item of l whose 'id' is id, 0 if there is none
\* (for item in l: if item['id'] == id: ...; break)
FirstWithId(l, id) ==
    IF \E i \in 1..Len(l) : l[i].id = id
    THEN CHOOSE i \in 1..Len(l) : l[i].id = id /\ \A j \in 1..(i - 1) : l[j].id # id
    ELSE 0
\* mutant: the list is cut at the first item whose 'id' is id
WithoutId_cut(l, id) ==
    IF FirstWithId(l, id) = 0 THEN l ELSE SubSeq(l, 1, FirstWithId(l, id) - 1)

\* [item for item in l if item['id'] != id]
WithoutId(l, id) == SelectSeq(l, LAMBDA item : item.id # id)

notTodo   == <<notes_list, timers_list, music_queue, notes_file, timers_file, music_file>>
notNotes  == <<todo_list, timers_list, music_queue, todo_file, timers_file, music_file>>
notTimers == <<todo_list, notes_list, music_queue, todo_file, notes_file, music_file>>
notMusic  == <<todo_list, notes_list, timers_list, todo_file, notes_file, timers_file>>
notApps   == <<sensorVars, weather_cache, fetched_at, threadVars>>

(***************************************************************************)
(* To-do list routes.                                                      *)
(***************************************************************************)
\* POST /todo/add
todo_add(text) ==
    /\ LET t == Strip(text) IN
       IF t # ""
       THEN /\ Ops < MaxOps
            /\ todo_list' = Append(todo_list,
                   [id |-> Uuid(next_id + 1), text |-> t, completed |-> FALSE])
            /\ todo_file' = save_todos(todo_list')
            /\ next_id' = next_id + 1
       ELSE UNCHANGED <<todo_list, todo_file, next_id>>
    /\ resp' = Redirect("/todo")
    /\ UNCHANGED <<notTodo, notApps, now>>

\* mutant: todo_toggle without its save_todos call
todo_toggle_nosave(item_id) ==
    /\ LET k == FirstWithId(todo_list, item_id) IN
       todo_list' = IF k = 0 THEN todo_list
                    ELSE [todo_list EXCEPT ![k].completed = ~todo_list[k].completed]
    /\ resp' = Redirect("/todo")
    /\ UNCHANGED <<todo_file, notTodo, notApps, now, next_id>>

\* mutant: todo_toggle marking the item completed instead of flipping the flag
todo_toggle_sets_done(item_id) ==
    /\ LET k == FirstWithId(todo_list, item_id) IN
       todo_list' = IF k = 0 THEN todo_list
                    ELSE [todo_list EXCEPT ![k].completed = TRUE]
    /\ todo_file' = save_todos(todo_list')
    /\ resp' = Redirect("/todo")
    /\ UNCHANGED <<notTodo, notApps, now, next_id>>

\* POST /todo/toggle/<item_id>
todo_toggle(item_id) ==
    /\ LET k == FirstWithId(todo_list, item_id) IN
       todo_list' = IF k = 0 THEN todo_list
                    ELSE [todo_list EXCEPT ![k].completed = ~todo_list[k].completed]
    /\ todo_file' = save_todos(todo_list')
    /\ resp' = Redirect("/todo")
    /\ UNCHANGED <<notTodo, notApps, now, next_id>>

\* POST /todo/delete/<item_id>
todo_delete(item_id) ==
    /\ todo_list' = WithoutId(todo_list, item_id)
    /\ todo_file' = save_todos(todo_list')
    /\ resp' = Redirect("/todo")
    /\ UNCHANGED <<notTodo, notApps, now, next_id>>

(***************************************************************************)
(* Notes routes.                                                           *)
(***************************************************************************)
\* POST /notes/add
notes_add(title, content) ==
    /\ LET t == Strip(title)
           c == Strip(content) IN
       IF t # "" /\ c # ""
       THEN /\ Ops < MaxOps
            /\ notes_list' = Append(notes_list,
                   [id |-> Uuid(next_id + 1), title |-> t, content |-> c,
                    created |-> strftime(now)])
            /\ notes_file' = save_notes(notes_list')
            /\ next_id' = next_id + 1
       ELSE UNCHANGED <<notes_list, notes_file, next_id>>
    /\ resp' = Redirect("/notes")
    /\ UNCHANGED <<notNotes, notApps, now>>

\* POST /notes/delete/<note_id>
notes_delete(note_id) ==
    /\ notes_list' = WithoutId(notes_list, note_id)
    /\ notes_file' = save_notes(notes_list')
    /\ resp' = Redirect("/notes")
    /\ UNCHANGED <<notNotes, notApps, now, next_id>>

(***************************************************************************)
(* Timers routes.                                                          *)
(***************************************************************************)
\* the 'minutes' and 'seconds' form fields: text int() rejects, or an integer
NotInt == [isint |-> FALSE, n |-> 0]
Int_(k) == [isint |-> TRUE, n |-> k]
\* the forms posted to /timers/add: name, minutes, seconds
TimerForms == { <<"", Int_(1), Int_(0)>>, <<"", NotInt, Int_(0)>>,
                <<" milk ", NotInt, Int_(0)>>, <<" milk ", Int_(0), NotInt>>,
                <<" milk ", Int_(0), Int_(0)>>, <<" milk ", Int_(1), Int_(0)>>,
                <<" milk ", Int_(0), Int_(1)>>, <<" milk ", Int_(-1), Int_(1)>>,
                <<" milk ", Int_(-1), Int_(0)>> }

\* POST /timers/add
timers_add(name, minutes, seconds) ==
    IF ~minutes.isint \/ ~seconds.isint
    THEN \* int(...) raises ValueError before anything is changed
         /\ resp' = ServerError("POST", "timers_add")
         /\ UNCHANGED <<appMem, appFiles, notApps, now, next_id>>
    ELSE /\ IF Strip(name) # "" /\ (minutes.n > 0 \/ seconds.n > 0)
            THEN /\ Ops < MaxOps
                 /\ timers_list' = Append(timers_list,
                        [id |-> Uuid(next_id + 1), name |-> Strip(name),
                         duration |-> minutes.n * 60 + seconds.n,
                         running |-> FALSE, start_time |-> 0])
                 /\ timers_file' = save_timers(timers_list')
                 /\ next_id' = next_id + 1
            ELSE UNCHANGED <<timers_list, timers_file, next_id>>
         /\ resp' = Redirect("/timers")
         /\ UNCHANGED <<notTimers, notApps, now>>

\* POST /timers/start/<timer_id>
timers_start(timer_id) ==
    /\ LET k == FirstWithId(timers_list, timer_id) IN
       timers_list' = IF k = 0 THEN timers_list
                      ELSE [timers_list EXCEPT ![k].running = TRUE, ![k].start_time = now]
    /\ timers_file' = save_timers(timers_list')
    /\ resp' = Redirect("/timers")
    /\ UNCHANGED <<notTimers, notApps, now, next_id>>

\* POST /timers/stop/<timer_id>
timers_stop(timer_id) ==
    /\ LET k == FirstWithId(timers_list, timer_id) IN
       timers_list' = IF k = 0 THEN timers_list
                      ELSE [timers_list EXCEPT ![k].running = FALSE]
    /\ timers_file' = save_timers(timers_list')
    /\ resp' = Redirect("/timers")
    /\ UNCHANGED <<notTimers, notApps, now, next_id>>

\* POST /timers/delete/<timer_id>
timers_delete(timer_id) ==
    /\ timers_list' = WithoutId(timers_list, timer_id)
    /\ timers_file' = save_timers(timers_list')
    /\ resp' = Redirect("/timers")
    /\ UNCHANGED <<notTimers, notApps, now, next_id>>

(***************************************************************************)
(* Music routes.                                                           *)
(***************************************************************************)
\* Python's a % b for b > 0: the result is in 0..b-1, also for a < 0
PyMod(a, b) == a % b

\* POST /music/add
music_add(title, artist) ==
    /\ LET t == Strip(title)
           a == Strip(artist) IN
       IF t # "" /\ a # ""
       THEN /\ Ops < MaxOps
            /\ music_queue' = [music_queue EXCEPT !.queue =
                   Append(music_queue.queue, [id |-> Uuid(next_id + 1), title |-> t, artist |-> a])]
            /\ music_file' = save_music_queue(music_queue')
            /\ next_id' = next_id + 1
       ELSE UNCHANGED <<music_queue, music_file, next_id>>
    /\ resp' = Redirect("/music")
    /\ UNCHANGED <<notMusic, notApps, now>>

\* POST /music/play
music_play ==
    /\ music_queue' = [music_queue EXCEPT !.is_playing = TRUE]
    /\ music_file' = save_music_queue(music_queue')
    /\ resp' = Redirect("/music")
    /\ UNCHANGED <<notMusic, notApps, now, next_id>>

\* POST /music/pause
music_pause ==
    /\ music_queue' = [music_queue EXCEPT !.is_playing = FALSE]
    /\ music_file' = save_music_queue(music_queue')
    /\ resp' = Redirect("/music")
    /\ UNCHANGED <<notMusic, notApps, now, next_id>>

\* POST /music/play/<int:index>
music_play_index(index) ==
    /\ IF 0 <= index /\ index < Len(music_queue.queue)
       THEN /\ music_queue' = [music_queue EXCEPT !.current_index = index, !.is_playing = TRUE]
            /\ music_file' = save_music_queue(music_queue')
       ELSE UNCHANGED <<music_queue, music_file>>
    /\ resp' = Redirect("/music")
    /\ UNCHANGED <<notMusic, notApps, now, next_id>>

\* POST /music/next
music_next ==
    /\ IF music_queue.queue # <<>>
       THEN /\ music_queue' = [music_queue EXCEPT !.current_index =
                   PyMod(music_queue.current_index + 1, Len(music_queue.queue))]
            /\ music_file' = save_music_queue(music_queue')
       ELSE UNCHANGED <<music_queue, music_file>>
    /\ resp' = Redirect("/music")
    /\ UNCHANGED <<notMusic, notApps, now, next_id>>

\* POST /music/previous
music_previous ==
    /\ IF music_queue.queue # <<>>
       THEN /\ music_queue' = [music_queue EXCEPT !.current_index =
                   PyMod(music_queue.current_index - 1, Len(music_queue.queue))]
            /\ music_file' = save_music_queue(music_queue')
       ELSE UNCHANGED <<music_queue, music_file>>
    /\ resp' = Redirect("/music")
    /\ UNCHANGED <<notMusic, notApps, now, next_id>>

\* mutant: music_remove without the adjustment of current_index
music_remove_no_clamp(track_id) ==
    /\ music_queue' = [music_queue EXCEPT !.queue = WithoutId(music_queue.queue, track_id)]
    /\ music_file' = save_music_queue(music_queue')
    /\ resp' = Redirect("/music")
    /\ UNCHANGED <<notMusic, notApps, now, next_id>>

\* POST /music/remove/<track_id>
music_remove(track_id) ==
    /\ LET q == WithoutId(music_queue.queue, track_id) IN
       music_queue' = [music_queue EXCEPT
           !.queue = q,
           !.current_index = IF music_queue.current_index >= Len(q) /\ q # <<>>
                             THEN Len(q) - 1 ELSE music_queue.current_index]
    /\ music_file' = save_music_queue(music_queue')
    /\ resp' = Redirect("/music")
    /\ UNCHANGED <<notMusic, notApps, now, next_id>>

(***************************************************************************)
(* Sensor ingestion and room aggregation.                                  *)
(***************************************************************************)
ROOM_CONFIG == ("Bedroom" :> <<"HomePOD_Env_Node", "HomePOD_Light_Node">>)
            @@ ("Living Room" :> <<"HomePOD_Env_Node_2">>)

\* sensor values: JSON null, or a number
None   == [none |-> TRUE]
Num(n) == [none |-> FALSE, n |-> n]

\* the 'sensors' member of a posted payload: a dict of sensor values, or JSON null
SensorDicts == { <<>>,
                 ("temperature" :> Num(21)),
                 ("temperature" :> Num(25)) @@ ("light" :> Num(300)),
                 ("temperature" :> None) @@ ("light" :> Num(40)) }
SensorMembers == SensorDicts \cup {None}
DeviceNames == {"HomePOD_Env_Node", "HomePOD_Light_Node", "HomePOD_Env_Node_2"}

\* the JSON objects a node can post: with or without 'device_name' and 'sensors'
Payloads == {("device_name" :> d) @@ ("sensors" :> sm) : d \in DeviceNames, sm \in SensorMembers}
       \cup {("sensors" :> sm) : sm \in {("temperature" :> Num(21))}}
       \cup {("device_name" :> d) : d \in {"HomePOD_Env_Node"}}
\* request bodies: text Flask rejects, a falsy JSON value ({} or null), a JSON
\* list, a JSON object
Bodies == {[kind |-> "malformed"], [kind |-> "falsy"], [kind |-> "list"]}
     \cup {[kind |-> "dict", data |-> p] : p \in Payloads}

\* d.get(key, default)
Get(d, key, default) == IF key \in DOMAIN d THEN d[key] ELSE default

\* POST /sensor-data
receive_sensor_data(body) ==
    /\ UNCHANGED <<appMem, appFiles, weather_cache, fetched_at, now, next_id, threadVars>>
    /\ CASE body.kind = "malformed" ->
              \* request.get_json() raises; except Exception answers 500
              /\ resp' = [method |-> "POST", op |-> "receive_sensor_data", status |-> 500]
              /\ UNCHANGED sensorVars
         [] body.kind = "falsy" ->
              /\ resp' = [method |-> "POST", op |-> "receive_sensor_data", status |-> 400]
              /\ UNCHANGED sensorVars
         [] body.kind = "list" ->
              \* data['received_at'] = ... raises TypeError
              /\ resp' = [method |-> "POST", op |-> "receive_sensor_data", status |-> 500]
              /\ UNCHANGED sensorVars
         [] body.kind = "dict" ->
              LET data == ("received_at" :> strftime(now)) @@ body.data
                  device_name == Get(data, "device_name", "Unknown Device")
                  \* the print block: sensors = data['sensors']; sensors.get(...)
                  printed == ~("sensors" \in DOMAIN data /\ data["sensors"] = None)
              IN  /\ Ops < MaxOps
                  /\ latest_readings' = (device_name :> data) @@ latest_readings
                  /\ sensor_log' = Append(sensor_log, data)
                  /\ stored_at' = (device_name :> now) @@ stored_at
                  /\ IF printed
                     THEN /\ resp' = [method |-> "POST", op |-> "receive_sensor_data", status |-> 200,
                                      device_name |-> device_name]
                          /\ accepted' = (device_name :> data) @@ accepted
                          /\ count200' = count200 + 1
                     ELSE /\ resp' = [method |-> "POST", op |-> "receive_sensor_data", status |-> 500]
                          /\ UNCHANGED <<accepted, count200>>

\* one device of a room in get_room_data: the merged sensors and the latest
\* timestamp after this device; raised when sensors.items() raises
NoStamp == <<>>
\* mutant: a key already merged from an earlier device of the list is kept
MergeDevice_keep_first(acc, device_name, readings) ==
    IF acc.raised \/ device_name \notin DOMAIN readings THEN acc
    ELSE LET device_data == readings[device_name]
             sensors   == Get(device_data, "sensors", <<>>)
             timestamp == Get(device_data, "received_at", NoStamp)
         IN  IF sensors = None THEN [acc EXCEPT !.raised = TRUE]
             ELSE [raised |-> FALSE,
                   merged |-> [k \in DOMAIN acc.merged \cup {x \in DOMAIN sensors : sensors[x] # None} |->
                                  IF k \in DOMAIN acc.merged
                                  THEN acc.merged[k] ELSE sensors[k]],
                   latest |-> IF timestamp # NoStamp
                                 /\ (acc.latest = NoStamp \/ StrGreater(timestamp, acc.latest))
                              THEN timestamp ELSE acc.latest]

\* mutant: the loop over sensors.items() without its "value is not None" test
MergeDevice_null_overwrites(acc, device_name, readings) ==
    IF acc.raised \/ device_name \notin DOMAIN readings THEN acc
    ELSE LET device_data == readings[device_name]
             sensors   == Get(device_data, "sensors", <<>>)
             timestamp == Get(device_data, "received_at", NoStamp)
         IN  IF sensors = None THEN [acc EXCEPT !.raised = TRUE]
             ELSE [raised |-> FALSE,
                   merged |-> [k \in DOMAIN acc.merged \cup DOMAIN sensors |->
                                  IF k \in DOMAIN sensors
                                  THEN sensors[k] ELSE acc.merged[k]],
                   latest |-> IF timestamp # NoStamp
                                 /\ (acc.latest = NoStamp \/ StrGreater(timestamp, acc.latest))
                              THEN timestamp ELSE acc.latest]

MergeDevice(acc, device_name, readings) ==
    IF acc.raised \/ device_name \notin DOMAIN readings THEN acc
    ELSE LET device_data == readings[device_name]
             sensors   == Get(device_data, "sensors", <<>>)
             timestamp == Get(device_data, "received_at", NoStamp)
         IN  IF sensors = None THEN [acc EXCEPT !.raised = TRUE]
             ELSE [raised |-> FALSE,
                   merged |-> [k \in DOMAIN acc.merged \cup {x \in DOMAIN sensors : sensors[x] # None} |->
                                  IF k \in DOMAIN sensors /\ sensors[k] # None
                                  THEN sensors[k] ELSE acc.merged[k]],
                   latest |-> IF timestamp # NoStamp
                                 /\ (acc.latest = NoStamp \/ StrGreater(timestamp, acc.latest))
                              THEN timestamp ELSE acc.latest]

RECURSIVE MergeDevices(_, _, _)
MergeDevices(acc, device_list, readings) ==
    IF device_list = <<>> THEN acc
    ELSE MergeDevices(MergeDevice(acc, Head(device_list), readings), Tail(device_list), readings)

MergeRoom(room_name, readings) ==
    MergeDevices([raised |-> FALSE, merged |-> <<>>, latest |-> NoStamp],
                 ROOM_CONFIG[room_name], readings)

\* get_room_data(): the rooms that have at least one sensor value
get_room_data(readings) ==
    IF \E r \in DOMAIN ROOM_CONFIG : MergeRoom(r, readings).raised
    THEN [raised |-> TRUE, rooms |-> <<>>]
    ELSE [raised |-> FALSE,
          rooms |-> [r \in {x \in DOMAIN ROOM_CONFIG : MergeRoom(x, readings).merged # <<>>} |->
                       [sensors |-> MergeRoom(r, readings).merged,
                        received_at |-> MergeRoom(r, readings).latest]]]

(***************************************************************************)
(* Weather lookup with its cache.                                          *)
(***************************************************************************)
WEATHER_CACHE_DURATION == 600

\* a JSON answer of the weather API: a report (with 'main' and 'weather'), or an
\* error object such as {"cod": 401, ...}; 'at' is the time of the request
NoWeather == [kind |-> "none", at |-> 0]
Report(t)   == [kind |-> "report", at |-> t]
ApiError(t) == [kind |-> "error", at |-> t]
\* what the two outbound requests of one fetch do: "raise", or answer
ApiOutcomes == [current : {"raise", "report", "error"}, forecast : {"raise", "report", "error"}]
Answer(kind, t) == IF kind = "report" THEN Report(t) ELSE ApiError(t)

\* fetch_weather(): the new cache, the returned pair, and whether an outbound
\* request was made
\* mutant: a successful fetch that does not record its time in last_update
fetch_weather_no_stamp(cache, t, api) ==
    IF cache.data # NoWeather /\ (t - cache.last_update) < WEATHER_CACHE_DURATION
    THEN [cache |-> cache, current |-> cache.data, forecast |-> cache.forecast, outbound |-> FALSE]
    ELSE IF api.current = "raise" \/ api.forecast = "raise"
    THEN [cache |-> cache, current |-> cache.data, forecast |-> cache.forecast, outbound |-> TRUE]
    ELSE LET current_data  == Answer(api.current, t)
             forecast_data == Answer(api.forecast, t)
         IN  [cache |-> [data |-> current_data, forecast |-> forecast_data,
                         last_update |-> cache.last_update],
              current |-> current_data, forecast |-> forecast_data, outbound |-> TRUE]

\* mutant: weather_cache['data'] is assigned as soon as the first request is
\* answered, before the forecast request is made
fetch_weather_early_store(cache, t, api) ==
    IF cache.data # NoWeather /\ (t - cache.last_update) < WEATHER_CACHE_DURATION
    THEN [cache |-> cache, current |-> cache.data, forecast |-> cache.forecast, outbound |-> FALSE]
    ELSE IF api.current = "raise"
    THEN [cache |-> cache, current |-> cache.data, forecast |-> cache.forecast, outbound |-> TRUE]
    ELSE IF api.forecast = "raise"
    THEN [cache |-> [cache EXCEPT !.data = Answer(api.current, t)],
          current |-> Answer(api.current, t), forecast |-> cache.forecast, outbound |-> TRUE]
    ELSE LET current_data  == Answer(api.current, t)
             forecast_data == Answer(api.forecast, t)
         IN  [cache |-> [data |-> current_data, forecast |-> forecast_data, last_update |-> t],
              current |-> current_data, forecast |-> forecast_data, outbound |-> TRUE]

fetch_weather(cache, t, api) ==
    IF cache.data # NoWeather /\ (t - cache.last_update) < WEATHER_CACHE_DURATION
    THEN [cache |-> cache, current |-> cache.data, forecast |-> cache.forecast, outbound |-> FALSE]
    ELSE IF api.current = "raise" \/ api.forecast = "raise"
    THEN [cache |-> cache, current |-> cache.data, forecast |-> cache.forecast, outbound |-> TRUE]
    ELSE LET current_data  == Answer(api.current, t)
             forecast_data == Answer(api.forecast, t)
         IN  [cache |-> [data |-> current_data, forecast |-> forecast_data, last_update |-> t],
              current |-> current_data, forecast |-> forecast_data, outbound |-> TRUE]

\* the fetch made its outbound requests and both were answered
Answered(w, api) == w.outbound /\ api.current # "raise" /\ api.forecast # "raise"

(***************************************************************************)
(* Pages (GET routes).                                                     *)
(***************************************************************************)
notWeather == <<appMem, appFiles, sensorVars, now, next_id, threadVars>>
readOnly   == <<appMem, appFiles, sensorVars, weather_cache, fetched_at, now, next_id, threadVars>>

\* GET /
home(api) ==
    /\ LET rooms == get_room_data(latest_readings) IN
       IF rooms.raised
       THEN /\ resp' = ServerError("GET", "home")
            /\ UNCHANGED <<weather_cache, fetched_at>>
       ELSE LET w == fetch_weather(weather_cache, now, api) IN
            /\ weather_cache' = w.cache
            /\ fetched_at' = IF Answered(w, api) THEN now ELSE fetched_at
            /\ resp' = IF w.current.kind = "error"
                       THEN \* weather['main'] raises KeyError
                            [method |-> "GET", op |-> "home", status |-> 500, outbound |-> w.outbound,
                             current |-> w.current, forecast |-> w.forecast]
                       ELSE [method |-> "GET", op |-> "home", status |-> 200, outbound |-> w.outbound,
                             current |-> w.current, forecast |-> w.forecast,
                             weather_temp |-> IF w.current = NoWeather THEN "N/A" ELSE "temp",
                             weather_desc |-> IF w.current = NoWeather THEN "Loading..." ELSE "description"]
    /\ UNCHANGED notWeather

\* GET /weather
weather_page(api) ==
    /\ LET w == fetch_weather(weather_cache, now, api) IN
       /\ weather_cache' = w.cache
       /\ fetched_at' = IF Answered(w, api) THEN now ELSE fetched_at
       /\ resp' = [method |-> "GET", op |-> "weather_page",
                   status |-> IF w.current.kind = "error" THEN 500 ELSE 200,
                   outbound |-> w.outbound, current |-> w.current, forecast |-> w.forecast]
    /\ UNCHANGED notWeather

\* GET /api/weather
api_weather(api) ==
    /\ LET w == fetch_weather(weather_cache, now, api) IN
       /\ weather_cache' = w.cache
       /\ fetched_at' = IF Answered(w, api) THEN now ELSE fetched_at
       /\ resp' = [method |-> "GET", op |-> "api_weather", status |-> 200,
                   outbound |-> w.outbound, current |-> w.current, forecast |-> w.forecast]
    /\ UNCHANGED notWeather

\* GET /room/<room_name>
room_detail(room_name) ==
    /\ LET rooms == get_room_data(latest_readings) IN
       resp' = IF rooms.raised THEN ServerError("GET", "room_detail")
               ELSE IF room_name \notin DOMAIN rooms.rooms THEN RedirectGet("/")
               ELSE [method |-> "GET", op |-> "room_detail", status |-> 200,
                     room |-> rooms.rooms[room_name]]
    /\ UNCHANGED readOnly

\* GET /todo
todo_page ==
    /\ resp' = Page("todo_page")
    /\ UNCHANGED readOnly

\* GET /timers
timers_page ==
    /\ resp' = Page("timers_page")
    /\ UNCHANGED readOnly

\* mutant: a notes page that reverses notes_list in place (notes_list.reverse())
\* where the code iterates over reversed(notes_list)
notes_page_reverse_in_place ==
    /\ resp' = Page("notes_page")
    /\ notes_list' = [i \in 1..Len(notes_list) |-> notes_list[Len(notes_list) + 1 - i]]
    /\ UNCHANGED <<todo_list, timers_list, music_queue, appFiles, sensorVars,
                   weather_cache, fetched_at, now, next_id, threadVars>>

\* GET /notes
notes_page ==
    /\ resp' = Page("notes_page")
    /\ UNCHANGED readOnly

\* GET /notes/view/<note_id>
notes_view(note_id) ==
    /\ resp' = IF FirstWithId(notes_list, note_id) = 0
               THEN RedirectGet("/notes") ELSE Page("notes_view")
    /\ UNCHANGED readOnly

\* GET /music
music_page ==
    /\ resp' = Page("music_page")
    /\ UNCHANGED readOnly

\* GET /system
system_page ==
    /\ resp' = Page("system_page")
    /\ UNCHANGED readOnly

\* GET /latest
get_latest ==
    /\ resp' = [method |-> "GET", op |-> "get_latest", status |-> 200, body |-> latest_readings]
    /\ UNCHANGED readOnly

(***************************************************************************)
(* The process and the clock.                                              *)
(***************************************************************************)
Threads == {1, 2}
EmptyCache == [data |-> NoWeather, forecast |-> NoWeather, last_update |-> 0]
\* the locals of a request thread: the form text or URL id, the item built, the
\* list a held reference points to (the global's list while live, else the
\* list as it was when the global was rebound), the filtered copy, the text
\* json.dump has produced
IdleLoc == [arg |-> "", item |-> <<>>, live |-> FALSE, snap |-> <<>>, new |-> <<>>, buf |-> <<>>]
NoRequest == [method |-> "none", status |-> 0]
NoServed  == [added |-> {}, deleted |-> {}]

\* module import: the four lists are loaded from their files, the other
\* globals start empty (a load function that raised would end the import)
Startup ==
    /\ todo_list   = load_todos(todo_file).val
    /\ notes_list  = load_notes(notes_file).val
    /\ timers_list = load_timers(timers_file).val
    /\ music_queue = load_music_queue(music_file).val
    /\ latest_readings = <<>>
    /\ sensor_log = <<>>
    /\ weather_cache = EmptyCache
    /\ resp = NoRequest
    /\ accepted = <<>>
    /\ count200 = 0
    /\ stored_at = <<>>
    /\ fetched_at = -1
    /\ served = NoServed
    /\ pc = [t \in Threads |-> "idle"]
    /\ loc = [t \in Threads |-> IdleLoc]

\* the data directory at the first start: no files yet, or files json.load rejects
Init ==
    /\ \E f \in StartFiles :
          todo_file = f /\ notes_file = f /\ timers_file = f /\ music_file = f
    /\ now = StartTime
    /\ next_id = 0
    /\ Startup

\* the process is stopped between two requests and started again
Restart ==
    /\ todo_list'   = load_todos(todo_file).val
    /\ notes_list'  = load_notes(notes_file).val
    /\ timers_list' = load_timers(timers_file).val
    /\ music_queue' = load_music_queue(music_file).val
    /\ latest_readings' = <<>>
    /\ sensor_log' = <<>>
    /\ weather_cache' = EmptyCache
    /\ resp' = NoRequest
    /\ accepted' = <<>>
    /\ count200' = 0
    /\ stored_at' = <<>>
    /\ fetched_at' = -1
    /\ UNCHANGED <<appFiles, now, next_id, threadVars>>

\* time passes
Tick ==
    /\ now < StartTime + MaxTicks * TickStep
    /\ now' = now + TickStep
    /\ UNCHANGED <<appMem, appFiles, sensorVars, weather_cache, fetched_at, next_id, resp, threadVars>>

\* the routes of the four apps
NextApps ==
    \/ \E text \in FormTexts : todo_add(text)
    \/ \E item_id \in PathIds : todo_toggle(item_id)
    \/ \E item_id \in PathIds : todo_delete(item_id)
    \/ \E title \in FormTexts, content \in FormTexts : notes_add(title, content)
    \/ \E note_id \in PathIds : notes_delete(note_id)
    \/ \E form \in TimerForms : timers_add(form[1], form[2], form[3])
    \/ \E timer_id \in PathIds : timers_start(timer_id)
    \/ \E timer_id \in PathIds : timers_stop(timer_id)
    \/ \E timer_id \in PathIds : timers_delete(timer_id)
    \/ \E title \in FormTexts, artist \in FormTexts : music_add(title, artist)
    \/ music_play
    \/ music_pause
    \/ \E index \in 0..MaxOps : music_play_index(index)
    \/ music_next
    \/ music_previous
    \/ \E track_id \in PathIds : music_remove(track_id)
    \/ Restart

\* the sensor routes
NextSensors ==
    \/ \E body \in Bodies : receive_sensor_data(body)
    \/ \E room_name \in DOMAIN ROOM_CONFIG \cup {"Kitchen"} : room_detail(room_name)
    \/ get_latest
    \/ Tick

\* the routes that look up the weather
NextWeather ==
    \/ \E api \in ApiOutcomes : home(api)
    \/ \E api \in ApiOutcomes : weather_page(api)
    \/ \E api \in ApiOutcomes : api_weather(api)
    \/ Tick

\* the pages of the four apps
NextPages ==
    \/ todo_page
    \/ timers_page
    \/ notes_page
    \/ \E note_id \in PathIds : notes_view(note_id)
    \/ music_page
    \/ system_page


(***************************************************************************)
(* The threaded server.  app.run(host=..., port=5000, debug=False) starts  *)
(* the development server with its default threaded=True: every request    *)
(* runs in a thread of its own, and the handlers take no lock.  The steps   *)
(* below are the points of /todo/add and /todo/delete between which the     *)
(* interpreter can switch threads.                                          *)
(***************************************************************************)
\* a request for /todo/add arrives and gets a thread
T_dispatch_add(t, text) ==
    /\ pc[t] = "idle"
    /\ Strip(text) # ""
    /\ next_id + Cardinality({u \in Threads : pc[u] = "add_load"}) < MaxOps
    /\ pc' = [pc EXCEPT ![t] = "add_load"]
    /\ loc' = [loc EXCEPT ![t] = [IdleLoc EXCEPT !.arg = Strip(text)]]
    /\ UNCHANGED <<appMem, appFiles, sensorVars, weather_cache, fetched_at, now, next_id, resp, served>>

\* todo_list.append({...}): the global is read and the item is built
T_add_load(t) ==
    /\ pc[t] = "add_load"
    /\ next_id' = next_id + 1
    /\ loc' = [loc EXCEPT ![t].live = TRUE,
                          ![t].item = [id |-> Uuid(next_id + 1), text |-> loc[t].arg, completed |-> FALSE]]
    /\ pc' = [pc EXCEPT ![t] = "add_append"]
    /\ UNCHANGED <<appMem, appFiles, sensorVars, weather_cache, fetched_at, now, resp, served>>

\* todo_list.append({...}): the item is appended to the list that was read
T_add_append(t) ==
    /\ pc[t] = "add_append"
    /\ IF loc[t].live
       THEN /\ todo_list' = Append(todo_list, loc[t].item)
            /\ loc' = [loc EXCEPT ![t].live = FALSE]
       ELSE /\ loc' = [loc EXCEPT ![t].snap = Append(loc[t].snap, loc[t].item)]
            /\ UNCHANGED todo_list
    /\ served' = [served EXCEPT !.added = @ \cup {loc[t].item.id}]
    /\ pc' = [pc EXCEPT ![t] = "save_call"]
    /\ UNCHANGED <<notTodo, todo_file, sensorVars, weather_cache, fetched_at, now, next_id, resp>>

\* a request for /todo/delete/<item_id> arrives and gets a thread
T_dispatch_delete(t, item_id) ==
    /\ pc[t] = "idle"
    /\ pc' = [pc EXCEPT ![t] = "del_filter"]
    /\ loc' = [loc EXCEPT ![t] = [IdleLoc EXCEPT !.arg = item_id]]
    /\ UNCHANGED <<appMem, appFiles, sensorVars, weather_cache, fetched_at, now, next_id, resp, served>>

\* [item for item in todo_list if item['id'] != item_id]
T_del_filter(t) ==
    /\ pc[t] = "del_filter"
    /\ loc' = [loc EXCEPT ![t].new = WithoutId(todo_list, loc[t].arg)]
    /\ pc' = [pc EXCEPT ![t] = "del_store"]
    /\ UNCHANGED <<appMem, appFiles, sensorVars, weather_cache, fetched_at, now, next_id, resp, served>>

\* todo_list = ...: the global is rebound; a reference another thread holds
\* keeps pointing to the old list
T_del_store(t) ==
    /\ pc[t] = "del_store"
    /\ todo_list' = loc[t].new
    /\ loc' = [u \in Threads |->
                 IF u # t /\ loc[u].live
                 THEN [loc[u] EXCEPT !.live = FALSE, !.snap = todo_list]
                 ELSE loc[u]]
    /\ served' = [served EXCEPT !.deleted = @ \cup {loc[t].arg}]
    /\ pc' = [pc EXCEPT ![t] = "save_call"]
    /\ UNCHANGED <<notTodo, todo_file, sensorVars, weather_cache, fetched_at, now, next_id, resp>>

\* save_todos(todo_list): the global is read and passed as todos
T_save_call(t) ==
    /\ pc[t] = "save_call"
    /\ loc' = [loc EXCEPT ![t].live = TRUE]
    /\ pc' = [pc EXCEPT ![t] = "save_open"]
    /\ UNCHANGED <<appMem, appFiles, sensorVars, weather_cache, fetched_at, now, next_id, resp, served>>

\* open(TODO_FILE, 'w'): the file is truncated
T_save_open(t) ==
    /\ pc[t] = "save_open"
    /\ todo_file' = FileOf(<<>>)
    /\ pc' = [pc EXCEPT ![t] = "save_dump"]
    /\ UNCHANGED <<appMem, notes_file, timers_file, music_file, sensorVars, weather_cache,
                   fetched_at, now, next_id, resp, served, loc>>

\* json.dump(todos, f): the list is serialised into the file object's buffer
T_save_dump(t) ==
    /\ pc[t] = "save_dump"
    /\ loc' = [loc EXCEPT ![t].buf = DumpTodos(IF loc[t].live THEN todo_list ELSE loc[t].snap),
                          ![t].live = FALSE]
    /\ pc' = [pc EXCEPT ![t] = "save_close"]
    /\ UNCHANGED <<appMem, appFiles, sensorVars, weather_cache, fetched_at, now, next_id, resp, served>>

\* leaving the with block: the buffer is written at the start of the file, over
\* whatever another thread has written there since the open
T_save_close(t) ==
    /\ pc[t] = "save_close"
    /\ todo_file' = FileOf(loc[t].buf \o SubSeq(todo_file.text, Len(loc[t].buf) + 1, Len(todo_file.text)))
    /\ pc' = [pc EXCEPT ![t] = "respond"]
    /\ UNCHANGED <<appMem, notes_file, timers_file, music_file, sensorVars, weather_cache,
                   fetched_at, now, next_id, resp, served, loc>>

\* return redirect('/todo')
T_respond(t) ==
    /\ pc[t] = "respond"
    /\ resp' = Redirect("/todo")
    /\ pc' = [pc EXCEPT ![t] = "idle"]
    /\ loc' = [loc EXCEPT ![t] = IdleLoc]
    /\ UNCHANGED <<appMem, appFiles, sensorVars, weather_cache, fetched_at, now, next_id, served>>

NextThreaded ==
    \/ \E t \in Threads, text \in FormTexts : T_dispatch_add(t, text)
    \/ \E t \in Threads : T_add_load(t)
    \/ \E t \in Threads : T_add_append(t)
    \/ \E t \in Threads, item_id \in PathIds : T_dispatch_delete(t, item_id)
    \/ \E t \in Threads : T_del_filter(t)
    \/ \E t \in Threads : T_del_store(t)
    \/ \E t \in Threads : T_save_call(t)
    \/ \E t \in Threads : T_save_open(t)
    \/ \E t \in Threads : T_save_dump(t)
    \/ \E t \in Threads : T_save_close(t)
    \/ \E t \in Threads : T_respond(t)

\* the pages, with the requests that fill what they show
NextBrowse ==
    \/ NextPages
    \/ \E api \in ApiOutcomes : home(api)
    \/ \E api \in ApiOutcomes : weather_page(api)
    \/ \E api \in ApiOutcomes : api_weather(api)
    \/ \E room_name \in DOMAIN ROOM_CONFIG \cup {"Kitchen"} : room_detail(room_name)
    \/ get_latest
    \/ \E text \in FormTexts : todo_add(text)
    \/ \E title \in FormTexts, content \in FormTexts : notes_add(title, content)
    \/ \E title \in FormTexts, artist \in FormTexts : music_add(title, artist)
    \/ \E body \in Bodies : receive_sensor_data(body)


(***************************************************************************)
(* Interpretation of raw readings (the three copies).                      *)
(***************************************************************************)
\* a level name returned by interpret_audio / interpret_light
Level(s) == [none |-> FALSE, s |-> s]
\* a number with one decimal digit, such as 21.8
Dec(n, tenth) == [none |-> FALSE, n |-> n, tenth |-> tenth]

\* mutant: the first comparison of interpret_audio written with <
interpret_audio_strict(audio_peak) ==
    IF audio_peak = None THEN None
    ELSE IF audio_peak.n < 50 THEN Level("Quiet")
    ELSE IF audio_peak.n <= 500 THEN Level("Talking")
    ELSE Level("Loud")

\* homepod_server_v3.py
interpret_audio(audio_peak) ==
    IF audio_peak = None THEN None
    ELSE IF audio_peak.n <= 50 THEN Level("Quiet")
    ELSE IF audio_peak.n <= 500 THEN Level("Talking")
    ELSE Level("Loud")

interpret_light(lux) ==
    IF lux = None THEN None
    ELSE IF lux.n < 50 THEN Level("Dark")
    ELSE IF lux.n <= 500 THEN Level("Bright")
    ELSE Level("Very Bright")

\* homepod_server_v2.py
v2_interpret_audio(audio_peak) ==
    IF audio_peak = None THEN None
    ELSE IF audio_peak.n <= 50 THEN Level("Quiet")
    ELSE IF audio_peak.n <= 500 THEN Level("Talking")
    ELSE Level("Loud")

v2_interpret_light(lux) ==
    IF lux = None THEN None
    ELSE IF lux.n < 50 THEN Level("Dark")
    ELSE IF lux.n <= 500 THEN Level("Bright")
    ELSE Level("Very Bright")

\* demo_server.py
demo_interpret_audio(audio_peak) ==
    IF audio_peak = None THEN None
    ELSE IF audio_peak.n <= 50 THEN Level("Quiet")
    ELSE IF audio_peak.n <= 500 THEN Level("Talking")
    ELSE Level("Loud")

demo_interpret_light(lux) ==
    IF lux = None THEN None
    ELSE IF lux.n < 50 THEN Level("Dark")
    ELSE IF lux.n <= 500 THEN Level("Bright")
    ELSE Level("Very Bright")

\* raw readings a node can report for audio_peak and light: null, or a number
\* around the two thresholds
RawReadings == {None} \cup {Num(n) : n \in {-1, 0, 49, 50, 51, 180, 499, 500, 501, 1000}}

\* the page code of the three servers interpreting one reading of each kind
\* (v3 home lines 884-885, v2 home lines 170 and 180, demo room_detail lines
\* 677 and 686)
interpret_levels(audio_peak, lux) ==
    /\ resp' = [method |-> "none", status |-> 0, op |-> "interpret",
                audio_peak |-> audio_peak, lux |-> lux,
                audio |-> [v3 |-> interpret_audio(audio_peak),
                           v2 |-> v2_interpret_audio(audio_peak),
                           demo |-> demo_interpret_audio(audio_peak)],
                light |-> [v3 |-> interpret_light(lux),
                           v2 |-> v2_interpret_light(lux),
                           demo |-> demo_interpret_light(lux)]]
    /\ UNCHANGED <<appMem, appFiles, sensorVars, weather_cache, fetched_at, now, next_id, threadVars>>

NextLevels == \E audio_peak \in RawReadings, lux \in RawReadings : interpret_levels(audio_peak, lux)

(***************************************************************************)
(* The demo server (demo_server.py): its own latest_readings, todo_list    *)
(* and weather_cache, pre-loaded at import; four GET routes and no other.  *)
(***************************************************************************)
demo_ROOM_CONFIG == ("Bedroom" :> <<"HomeHUB_Env_Node", "HomeHUB_Light_Node">>)
                 @@ ("Living Room" :> <<"HomeHUB_Env_Node_2">>)

\* latest_readings as pre-loaded, stamped with the time of the import
demo_latest_readings(t) ==
       ("HomeHUB_Env_Node" :>
            [device_name |-> "HomeHUB_Env_Node",
             sensors |-> ("temperature" :> Dec(21, 8)) @@ ("humidity" :> Dec(42, 5))
                         @@ ("audio_peak" :> Num(35)),
             received_at |-> strftime(t)])
    @@ ("HomeHUB_Light_Node" :>
            [device_name |-> "HomeHUB_Light_Node",
             sensors |-> ("light" :> Num(180)),
             received_at |-> strftime(t)])
    @@ ("HomeHUB_Env_Node_2" :>
            [device_name |-> "HomeHUB_Env_Node_2",
             sensors |-> ("temperature" :> Dec(23, 2)) @@ ("humidity" :> Dec(38, 7))
                         @@ ("audio_peak" :> Num(245)),
             received_at |-> strftime(t)])

demo_todo_list ==
    << [id |-> "1", text |-> "Water the plants", done |-> TRUE],
       [id |-> "2", text |-> "Check thermostat settings", done |-> FALSE],
       [id |-> "3", text |-> "Replace living room sensor battery", done |-> FALSE] >>

\* mutant: only the first configured device of a room is merged
demo_MergeRoom_first_device(room_name, readings) ==
    MergeDevices([raised |-> FALSE, merged |-> <<>>, latest |-> NoStamp],
                 SubSeq(demo_ROOM_CONFIG[room_name], 1, 1), readings)

\* the body of get_room_data's loop over ROOM_CONFIG; the loop over the device
\* list is, line for line, that of homepod_server_v3.py
demo_MergeRoom(room_name, readings) ==
    MergeDevices([raised |-> FALSE, merged |-> <<>>, latest |-> NoStamp],
                 demo_ROOM_CONFIG[room_name], readings)

demo_get_room_data(readings) ==
    IF \E r \in DOMAIN demo_ROOM_CONFIG : demo_MergeRoom(r, readings).raised
    THEN [raised |-> TRUE, rooms |-> <<>>]
    ELSE [raised |-> FALSE,
          rooms |-> [r \in {x \in DOMAIN demo_ROOM_CONFIG : demo_MergeRoom(x, readings).merged # <<>>} |->
                       [sensors |-> demo_MergeRoom(r, readings).merged,
                        received_at |-> demo_MergeRoom(r, readings).latest]]]

\* demo fetch_weather: the same text as homepod_server_v3.py's
demo_fetch_weather(cache, t, api) == fetch_weather(cache, t, api)

\* what a room card or room page shows of a merged sensors dict: the levels are
\* looked up only for keys that are present and not null
demo_labels(sensors) ==
    [audio |-> IF "audio_peak" \in DOMAIN sensors /\ sensors["audio_peak"] # None
               THEN demo_interpret_audio(sensors["audio_peak"]) ELSE None,
     light |-> IF "light" \in DOMAIN sensors /\ sensors["light"] # None
               THEN demo_interpret_light(sensors["light"]) ELSE None]

\* GET / of the demo server
demo_home(api) ==
    /\ LET w == demo_fetch_weather(weather_cache, now, api)
           rooms == demo_get_room_data(latest_readings)
       IN  /\ weather_cache' = w.cache
           /\ fetched_at' = IF Answered(w, api) THEN now ELSE fetched_at
           /\ resp' = [method |-> "GET", op |-> "demo_home",
                       status |-> IF rooms.raised THEN 500 ELSE 200,
                       outbound |-> w.outbound, current |-> w.current, forecast |-> w.forecast,
                       weather_temp |-> IF w.current.kind = "report" THEN "temp" ELSE "--",
                       rooms |-> rooms.rooms]
    /\ UNCHANGED notWeather

\* GET /weather of the demo server
demo_weather_detail(api) ==
    /\ LET w == demo_fetch_weather(weather_cache, now, api) IN
       /\ weather_cache' = w.cache
       /\ fetched_at' = IF Answered(w, api) THEN now ELSE fetched_at
       /\ resp' = [method |-> "GET", op |-> "demo_weather_detail", status |-> 200,
                   outbound |-> w.outbound, current |-> w.current, forecast |-> w.forecast]
    /\ UNCHANGED notWeather

\* GET /room/<room_name> of the demo server
demo_room_detail(room_name) ==
    /\ LET rooms == demo_get_room_data(latest_readings) IN
       resp' = IF rooms.raised THEN ServerError("GET", "demo_room_detail")
               ELSE IF room_name \notin DOMAIN rooms.rooms
               THEN [method |-> "GET", op |-> "demo_room_detail", status |-> 200,
                     name |-> room_name, temp_display |-> "--"]
               ELSE [method |-> "GET", op |-> "demo_room_detail", status |-> 200,
                     name |-> room_name,
                     room |-> rooms.rooms[room_name],
                     labels |-> demo_labels(rooms.rooms[room_name].sensors)]
    /\ UNCHANGED readOnly

\* GET /todo of the demo server
demo_todo_page ==
    /\ resp' = [method |-> "GET", op |-> "demo_todo_page", status |-> 200, items |-> todo_list]
    /\ UNCHANGED readOnly

\* the requests the demo server has no route for: the forms of its /todo page
\* and a node's POST /sensor-data
demo_unrouted == {"/todo/add", "/todo/toggle/1", "/todo/delete/1", "/sensor-data"}

\* mutant: the demo server with the v3 handler of /todo/delete/<item_id>
demo_not_found_deleting(path) ==
    /\ resp' = [method |-> "POST", status |-> 404, path |-> path]
    /\ todo_list' = IF path = "/todo/delete/1" THEN WithoutId(todo_list, "1") ELSE todo_list
    /\ UNCHANGED <<notTodo, appFiles, sensorVars, weather_cache, fetched_at, now, next_id, threadVars>>

\* a POST to a URL no route matches: Flask answers 404 and calls no handler
demo_not_found(path) ==
    /\ resp' = [method |-> "POST", status |-> 404, path |-> path]
    /\ UNCHANGED readOnly

\* the demo process after import
InitDemo ==
    /\ latest_readings = demo_latest_readings(StartTime)
    /\ todo_list = demo_todo_list
    /\ notes_list = <<>> /\ timers_list = <<>> /\ music_queue = DefaultMusic
    /\ todo_file = MissingFile /\ notes_file = MissingFile
    /\ timers_file = MissingFile /\ music_file = MissingFile
    /\ sensor_log = <<>>
    /\ weather_cache = EmptyCache
    /\ now = StartTime
    /\ next_id = 0
    /\ resp = NoRequest
    /\ accepted = <<>> /\ count200 = 0 /\ stored_at = <<>>
    /\ fetched_at = -1
    /\ served = NoServed
    /\ pc = [t \in Threads |-> "idle"]
    /\ loc = [t \in Threads |-> IdleLoc]

NextDemo ==
    \/ \E api \in ApiOutcomes : demo_home(api)
    \/ \E api \in ApiOutcomes : demo_weather_detail(api)
    \/ \E room_name \in DOMAIN demo_ROOM_CONFIG \cup {"Kitchen"} : demo_room_detail(room_name)
    \/ demo_todo_page
    \/ \E path \in demo_unrouted : demo_not_found(path)
    \/ Tick

Next == NextApps \/ NextSensors \/ NextWeather \/ NextPages

Spec == Init /\ [][Next]_vars
SpecApps    == Init /\ [][NextApps]_vars
SpecSensors == Init /\ [][NextSensors]_vars
SpecWeather == Init /\ [][NextWeather]_vars
SpecBrowse  == Init /\ [][NextBrowse]_vars
SpecThreaded == Init /\ [][NextThreaded]_vars
SpecLevels  == Init /\ [][NextLevels]_vars
SpecDemo    == InitDemo /\ [][NextDemo]_vars

(***************************************************************************)
(* Properties.                                                             *)
(***************************************************************************)
\* the last completed request was a POST of the app whose page is `to`
LastPost(to) == resp.method = "POST" /\ "to" \in DOMAIN resp /\ resp.to = to

\* C1 as stated: once a mutating request of an app (add, toggle, delete, start,
\* stop, play, pause, play/<index>, next, previous, remove) has completed, the
\* app's JSON file holds the in-memory state.
C1_FileMirrorsAfterAnyPost ==
    /\ LastPost("/todo")   => todo_file   = save_todos(todo_list)
    /\ LastPost("/notes")  => notes_file  = save_notes(notes_list)
    /\ LastPost("/timers") => timers_file = save_timers(timers_list)
    /\ LastPost("/music")  => music_file  = save_music_queue(music_queue)

\* C1 amended: each app's file holds the in-memory state as soon as one request of
\* the app has reached its save call; until then (only rejected adds, play/<index>
\* out of range, next/previous on an empty queue) the file is as it was found at
\* startup and the in-memory state is the loaded default.  So no handler changes
\* the in-memory state without writing it.
C1_FileMirrorsOnceSaved ==
    /\ todo_file = save_todos(todo_list)
          \/ (todo_file \in StartFiles /\ todo_list = <<>>)
    /\ notes_file = save_notes(notes_list)
          \/ (notes_file \in StartFiles /\ notes_list = <<>>)
    /\ timers_file = save_timers(timers_list)
          \/ (timers_file \in StartFiles /\ timers_list = <<>>)
    /\ music_file = save_music_queue(music_queue)
          \/ (music_file \in StartFiles /\ music_queue = DefaultMusic)

\* C1 witness: after a toggle and a play, both lists are non-default and on disk
C1_Witness ==
    /\ LastPost("/music")
    /\ music_queue.queue # <<>> /\ music_queue.is_playing
    /\ music_file = save_music_queue(music_queue)
    /\ \E i \in 1..Len(todo_list) : todo_list[i].completed
    /\ todo_file = save_todos(todo_list)

\* C2: what a save function wrote, the matching load function reads back: in
\* every state the four load functions, run on the four files, return the
\* in-memory state (so a restart restores it), and loading what a save of the
\* in-memory state writes returns that state.
C2_RoundTrip ==
    /\ load_todos(save_todos(todo_list)) = Returned(todo_list)
    /\ load_notes(save_notes(notes_list)) = Returned(notes_list)
    /\ load_timers(save_timers(timers_list)) = Returned(timers_list)
    /\ load_music_queue(save_music_queue(music_queue)) = Returned(music_queue)
    /\ load_todos(todo_file).val = todo_list
    /\ load_notes(notes_file).val = notes_list
    /\ load_timers(timers_file).val = timers_list
    /\ load_music_queue(music_file).val = music_queue

\* C2 witness: the process was restarted with a running timer and a playing queue
C2_Witness ==
    /\ resp = NoRequest
    /\ \E i \in 1..Len(timers_list) : timers_list[i].running /\ timers_list[i].start_time > 0
    /\ music_queue.queue # <<>> /\ music_queue.is_playing
    /\ timers_file = save_timers(timers_list)
    /\ music_file = save_music_queue(music_queue)

\* a file json.load cannot read: missing, or its text does not parse
Unusable(file) == ~file.exists \/ ~JsonLoad(file.text).ok

\* C3: no load function raises, and on a missing or unparsable file each returns
\* its empty default.
C3_LoadFallsBack ==
    /\ ~load_todos(todo_file).raised /\ ~load_notes(notes_file).raised
    /\ ~load_timers(timers_file).raised /\ ~load_music_queue(music_file).raised
    /\ Unusable(todo_file)   => load_todos(todo_file).val = <<>>
    /\ Unusable(notes_file)  => load_notes(notes_file).val = <<>>
    /\ Unusable(timers_file) => load_timers(timers_file).val = <<>>
    /\ Unusable(music_file)  => load_music_queue(music_file).val = DefaultMusic

\* C3 witness: a restart found unparsable notes and music files next to a written
\* to-do file
C3_Witness ==
    /\ resp = NoRequest /\ next_id > 0
    /\ notes_file.exists /\ ~JsonLoad(notes_file.text).ok /\ notes_file.text # <<>>
    /\ music_file.exists /\ ~JsonLoad(music_file.text).ok
    /\ notes_list = <<>> /\ music_queue = DefaultMusic
    /\ todo_list # <<>>

\* C4 as stated: latest_readings[d] is the payload, with its received_at stamp, of
\* the most recent request of device d that was accepted (answered 200).
C4_LastAcceptedWins ==
    \A d \in DOMAIN latest_readings :
        d \in DOMAIN accepted /\ latest_readings[d] = accepted[d]

\* the devices configured for room r that are in latest_readings, and those of
\* them that report a non-null value for sensor key k
Configured(r) == {ROOM_CONFIG[r][i] : i \in 1..Len(ROOM_CONFIG[r])}
Present(r) == Configured(r) \cap DOMAIN latest_readings
Reporting(r, k) ==
    {d \in Present(r) : LET sm == Get(latest_readings[d], "sensors", <<>>) IN
                        sm # None /\ k \in DOMAIN sm /\ sm[k] # None}
ConfigIndex(r, d) == CHOOSE i \in 1..Len(ROOM_CONFIG[r]) : ROOM_CONFIG[r][i] = d
RoomData == get_room_data(latest_readings)

\* C5 as stated: when two or more devices of a room report a non-null value for
\* the same key, the room gets the value of the reading received last (the one
\* with the greatest received_at).
C5_LatestReadingWins ==
    ~RoomData.raised =>
        \A r \in DOMAIN RoomData.rooms : \A k \in DOMAIN RoomData.rooms[r].sensors :
            \A d \in Reporting(r, k) :
                (/\ Cardinality(Reporting(r, k)) >= 2
                 /\ \A e \in Reporting(r, k) \ {d} :
                        StrGreater(latest_readings[d]["received_at"],
                                   latest_readings[e]["received_at"]))
                => RoomData.rooms[r].sensors[k] = latest_readings[d]["sensors"][k]

\* C5 amended: the room gets the value of the device that comes last in the
\* room's ROOM_CONFIG list among those reporting a non-null value for the key,
\* whatever the received_at stamps are.
C5_LastConfiguredWins ==
    ~RoomData.raised =>
        \A r \in DOMAIN RoomData.rooms : \A k \in DOMAIN RoomData.rooms[r].sensors :
            /\ Reporting(r, k) # {}
            /\ \A d \in Reporting(r, k) :
                   (\A e \in Reporting(r, k) : ConfigIndex(r, e) <= ConfigIndex(r, d))
                   => RoomData.rooms[r].sensors[k] = latest_readings[d]["sensors"][k]

\* C5 witness: both Bedroom devices report a temperature, the first of the list
\* more recently and with another value, and the room page shows the value of
\* the second
C5_Witness ==
    /\ Reporting("Bedroom", "temperature") = {"HomePOD_Env_Node", "HomePOD_Light_Node"}
    /\ StrGreater(latest_readings["HomePOD_Env_Node"]["received_at"],
                  latest_readings["HomePOD_Light_Node"]["received_at"])
    /\ latest_readings["HomePOD_Env_Node"]["sensors"]["temperature"]
          # latest_readings["HomePOD_Light_Node"]["sensors"]["temperature"]
    /\ resp.method = "GET" /\ resp.status = 200 /\ "room" \in DOMAIN resp
    /\ resp.room.sensors["temperature"]
          = latest_readings["HomePOD_Light_Node"]["sensors"]["temperature"]

MaxOf(S) == CHOOSE x \in S : \A y \in S : y <= x

\* C6: the received_at of every room get_room_data returns is the greatest,
\* under string comparison, of the stamps of the room's configured devices that
\* are in latest_readings, and it is the stamp of the time at which the most
\* recent of these readings was received.
C6_RoomStampIsLatest ==
    ~RoomData.raised =>
        \A r \in DOMAIN RoomData.rooms :
            /\ \E d \in Present(r) :
                   RoomData.rooms[r].received_at = latest_readings[d]["received_at"]
            /\ \A e \in Present(r) :
                   ~StrGreater(latest_readings[e]["received_at"], RoomData.rooms[r].received_at)
            /\ RoomData.rooms[r].received_at = strftime(MaxOf({stored_at[d] : d \in Present(r)}))

\* C6 witness: the two Bedroom devices were stored at different times, the second
\* of the list first, and the room page shows the later stamp
C6_Witness ==
    /\ Present("Bedroom") = {"HomePOD_Env_Node", "HomePOD_Light_Node"}
    /\ stored_at["HomePOD_Env_Node"] > stored_at["HomePOD_Light_Node"]
    /\ resp.method = "GET" /\ resp.status = 200 /\ "room" \in DOMAIN resp
    /\ resp.room.received_at = strftime(stored_at["HomePOD_Env_Node"])

\* C8 as stated: the number of lines this process appended to the sensor log
\* equals the number of POST /sensor-data requests it answered with 200.
C8_LogLinesMatch200 == Len(sensor_log) = count200

\* a step that calls fetch_weather
FetchStep ==
    /\ \E api \in ApiOutcomes : home(api) \/ weather_page(api) \/ api_weather(api)
    /\ "outbound" \in DOMAIN resp'

\* C7: for 600 seconds after a fetch whose requests were answered, fetch_weather
\* returns the pair cached by that fetch, makes no outbound request and leaves
\* the cache as it is; from 600 seconds on, a call makes an outbound request.
C7_CacheLifetime ==
    [][FetchStep =>
         /\ (fetched_at >= 0 /\ now - fetched_at < WEATHER_CACHE_DURATION) =>
                /\ ~resp'.outbound
                /\ resp'.current = weather_cache.data /\ resp'.current.at = fetched_at
                /\ resp'.forecast = weather_cache.forecast /\ resp'.forecast.at = fetched_at
                /\ weather_cache' = weather_cache
         /\ (fetched_at >= 0 /\ now - fetched_at >= WEATHER_CACHE_DURATION) =>
                resp'.outbound
    ]_vars

\* C7 witness: a page was served from the cache 300 seconds after the fetch
C7_Witness ==
    /\ resp.method = "GET" /\ "outbound" \in DOMAIN resp /\ ~resp.outbound
    /\ resp.current.kind = "report"
    /\ fetched_at >= 0 /\ now - fetched_at > 0 /\ now - fetched_at < WEATHER_CACHE_DURATION

\* C9: a GET request leaves the four lists, the four data files, latest_readings
\* and the sensor log unchanged.
C9_PagesReadOnly ==
    [][resp'.method = "GET" =>
         UNCHANGED <<todo_list, notes_list, timers_list, music_queue,
                     todo_file, notes_file, timers_file, music_file,
                     latest_readings, sensor_log>>
    ]_vars

\* C9 witness: the home page was rendered over a saved to-do item and a note,
\* and its weather lookup filled the cache
C9_Witness ==
    /\ resp.method = "GET" /\ resp.status = 200 /\ resp.op = "home"
    /\ resp.outbound /\ weather_cache.data # NoWeather
    /\ todo_list # <<>> /\ notes_list # <<>> 
    /\ todo_file = save_todos(todo_list)

\* C10 as stated: once a /todo/add request and a /todo/delete request have both
\* been answered, the item the one appended, unless the other named it, is in
\* todo_list, and the JSON file holds todo_list.
C10_BothRequestsReflected ==
    (/\ \A t \in Threads : pc[t] = "idle"
     /\ Cardinality(served.added) = 1 /\ Cardinality(served.deleted) = 1) =>
        /\ \A id \in served.added \ served.deleted :
               \E i \in 1..Len(todo_list) : todo_list[i].id = id
        /\ (served.added \cup served.deleted # {}) => todo_file = save_todos(todo_list)

\* C11: whatever requests the demo server has handled, latest_readings and
\* todo_list are as pre-loaded at startup, and a rendering of a room shows the
\* values merged from the pre-loaded readings.
C11_DemoStateStatic ==
    /\ latest_readings = demo_latest_readings(StartTime)
    /\ todo_list = demo_todo_list
    /\ (resp.method = "GET" /\ "room" \in DOMAIN resp) =>
           resp.room = demo_get_room_data(demo_latest_readings(StartTime)).rooms[resp.name]
    /\ (resp.method = "GET" /\ "items" \in DOMAIN resp) => resp.items = demo_todo_list

\* C11 witness: the form of the /todo page was posted and answered 404
C11_Witness ==
    /\ resp.method = "POST" /\ resp.status = 404 /\ resp.path = "/todo/delete/1"
    /\ todo_list = demo_todo_list

\* C12: on the pre-loaded readings the rooms are exactly Bedroom (21.8, 42.5,
\* Quiet, Bright) and Living Room (23.2, 38.7, Talking, no light), in
\* get_room_data's result and on every rendered room page.
C12_DemoBanner ==
    LET rooms == demo_get_room_data(latest_readings).rooms
        bed == rooms["Bedroom"].sensors
        liv == rooms["Living Room"].sensors
    IN  /\ ~demo_get_room_data(latest_readings).raised
        /\ DOMAIN rooms = {"Bedroom", "Living Room"}
        /\ bed["temperature"] = Dec(21, 8) /\ bed["humidity"] = Dec(42, 5)
        /\ demo_labels(bed) = [audio |-> Level("Quiet"), light |-> Level("Bright")]
        /\ liv["temperature"] = Dec(23, 2) /\ liv["humidity"] = Dec(38, 7)
        /\ demo_labels(liv) = [audio |-> Level("Talking"), light |-> None]
        /\ "light" \notin DOMAIN liv
        /\ (resp.method = "GET" /\ "labels" \in DOMAIN resp) =>
               /\ resp.name \in {"Bedroom", "Living Room"}
               /\ resp.labels = demo_labels(rooms[resp.name].sensors)
               /\ resp.room.sensors = rooms[resp.name].sensors

\* C12 witness: the Bedroom page was rendered with its two levels
C12_Witness ==
    /\ resp.method = "GET" /\ "labels" \in DOMAIN resp /\ resp.name = "Bedroom"
    /\ resp.labels.audio = Level("Quiet") /\ resp.labels.light = Level("Bright")

\* C13: the three copies of interpret_audio and interpret_light agree on every
\* reading, map null to null and map a number to the one level of its range.
C13_LevelsPartition ==
    LET AudioLevel(x) == IF x <= 50 THEN "Quiet" ELSE IF x <= 500 THEN "Talking" ELSE "Loud"
        LightLevel(x) == IF x < 50 THEN "Dark" ELSE IF x <= 500 THEN "Bright" ELSE "Very Bright"
    IN
    (resp.method = "none" /\ "op" \in DOMAIN resp /\ resp.op = "interpret") =>
        /\ resp.audio.v2 = resp.audio.v3 /\ resp.audio.demo = resp.audio.v3
        /\ resp.light.v2 = resp.light.v3 /\ resp.light.demo = resp.light.v3
        /\ resp.audio.v3 = IF resp.audio_peak = None THEN None
                           ELSE Level(AudioLevel(resp.audio_peak.n))
        /\ resp.light.v3 = IF resp.lux = None THEN None
                           ELSE Level(LightLevel(resp.lux.n))
        /\ resp.audio_peak # None => resp.audio.v3.s \in {"Quiet", "Talking", "Loud"}
        /\ resp.lux # None => resp.light.v3.s \in {"Dark", "Bright", "Very Bright"}

\* C13 witness: the boundary readings 50 (audio) and 500 (light) were interpreted
C13_Witness ==
    /\ resp.method = "none" /\ "op" \in DOMAIN resp /\ resp.op = "interpret"
    /\ resp.audio_peak = Num(50) /\ resp.audio.v3 = Level("Quiet")
    /\ resp.lux = Num(500) /\ resp.light.demo = Level("Bright")

\* C14: in get_room_data's result every merged value is non-null, a key is
\* merged exactly when some device of the room reports a non-null value for it,
\* and the merged value is one of those non-null values: a null neither appears
\* nor replaces or removes another device's value.
C14_NullIsAbsent ==
    ~RoomData.raised =>
        \A r \in DOMAIN ROOM_CONFIG :
           LET merged == IF r \in DOMAIN RoomData.rooms THEN RoomData.rooms[r].sensors ELSE <<>> IN
           /\ \A k \in DOMAIN merged : merged[k] # None
           /\ \A k \in {"temperature", "humidity", "light", "audio_peak"} :
                 /\ k \in DOMAIN merged <=> Reporting(r, k) # {}
                 /\ k \in DOMAIN merged =>
                        \E d \in Reporting(r, k) : merged[k] = latest_readings[d]["sensors"][k]

\* C14 witness: the Bedroom page shows the Env node's temperature while the
\* Light node, merged after it, reports a null temperature
C14_Witness ==
    /\ resp.method = "GET" /\ resp.status = 200 /\ "room" \in DOMAIN resp
    /\ {"HomePOD_Env_Node", "HomePOD_Light_Node"} \subseteq DOMAIN latest_readings
    /\ Get(latest_readings["HomePOD_Light_Node"], "sensors", <<>>)
           = ("temperature" :> None) @@ ("light" :> Num(40))
    /\ Get(latest_readings["HomePOD_Env_Node"], "sensors", <<>>) = ("temperature" :> Num(21))
    /\ resp.room.sensors = ("temperature" :> Num(21)) @@ ("light" :> Num(40))

\* C20 as stated: a POST /sensor-data answered 400 or 500 leaves latest_readings
\* and the sensor log as they were before the request.
C20_ErrorLeavesSensorState ==
    [][((\E body \in Bodies : receive_sensor_data(body)) /\ resp'.status \in {400, 500})
          => UNCHANGED <<latest_readings, sensor_log>>]_vars

C16_ToggleFlipsOne ==
    [][
    LET Flipped(l1, l2, x) ==
            /\ Len(l2) = Len(l1)
            /\ \A i \in 1..Len(l1) :
                  /\ l2[i].id = l1[i].id /\ l2[i].text = l1[i].text
                  /\ l2[i].completed = IF l1[i].id = x THEN ~l1[i].completed ELSE l1[i].completed
        \* the list todo_toggle(x) leaves when it starts from l
        After(l, x) == LET k == FirstWithId(l, x) IN
                       IF k = 0 THEN l ELSE [l EXCEPT ![k].completed = ~l[k].completed]
    IN
          \A x \in PathIds :
             todo_toggle(x) =>
                /\ Flipped(todo_list, todo_list', x)
                /\ (\A i \in 1..Len(todo_list) : todo_list[i].id # x) => todo_list' = todo_list
                /\ After(todo_list', x) = todo_list
          ]_vars

\* C16 witness: of two to-do items the second was toggled and the first was not
C16_Witness ==
    /\ LastPost("/todo")
    /\ Len(todo_list) = 2
    /\ ~todo_list[1].completed /\ todo_list[2].completed
    /\ todo_file = save_todos(todo_list)

\* C17 as stated: an add request with a blank required field changes neither the
\* lists nor the files and is answered with the redirect to the app page; an
\* accepted add appends one item at the end of its list.
C17_BlankAddRejected ==
    [][
    LET Same == UNCHANGED <<todo_list, notes_list, timers_list, music_queue,
                            todo_file, notes_file, timers_file, music_file>>
        Grown(l1, l2) == Len(l2) = Len(l1) + 1 /\ SubSeq(l2, 1, Len(l1)) = l1
    IN
          /\ \A text \in FormTexts :
               todo_add(text) =>
                  IF Strip(text) = "" THEN Same /\ resp' = Redirect("/todo")
                  ELSE Grown(todo_list, todo_list')
          /\ \A title \in FormTexts, content \in FormTexts :
               notes_add(title, content) =>
                  IF Strip(title) = "" \/ Strip(content) = "" THEN Same /\ resp' = Redirect("/notes")
                  ELSE Grown(notes_list, notes_list')
          /\ \A title \in FormTexts, artist \in FormTexts :
               music_add(title, artist) =>
                  IF Strip(title) = "" \/ Strip(artist) = "" THEN Same /\ resp' = Redirect("/music")
                  ELSE Grown(music_queue.queue, music_queue'.queue)
          /\ \A form \in TimerForms :
               timers_add(form[1], form[2], form[3]) =>
                  /\ Strip(form[1]) = "" => Same /\ resp' = Redirect("/timers")
                  /\ timers_list' # timers_list => Grown(timers_list, timers_list')
          ]_vars

\* C18: current_index is 0 when the queue is empty and a position of the queue
\* when it is not.
C18_MusicIndexInRange ==
    IF music_queue.queue = <<>>
    THEN music_queue.current_index = 0
    ELSE 0 <= music_queue.current_index /\ music_queue.current_index < Len(music_queue.queue)

\* C18 witness: the first of two tracks was removed while the second was the
\* current one, and the index points to the track that is left
C18_Witness ==
    /\ LastPost("/music")
    /\ Len(music_queue.queue) = 1 /\ music_queue.queue[1].id = Uuid(2)
    /\ music_queue.current_index = 0 /\ music_queue.is_playing
    /\ todo_list = <<>> /\ notes_list = <<>> /\ timers_list = <<>>

\* C19 as stated: every timer in timers_list has a positive duration.
C19_TimerDurationPositive ==
    \A i \in 1..Len(timers_list) : timers_list[i].duration > 0

\* C21: a fetch_weather call in which one of the two requests raises leaves the
\* three fields of weather_cache as they were and returns the cached pair, and a
\* call made right after it goes out again; the cached current data and forecast
\* are always those of one fetch, the one whose time is in last_update.
C21_FailedFetchKeepsCache ==
    [][
    /\ \A api \in ApiOutcomes :
          ( /\ home(api) \/ weather_page(api) \/ api_weather(api)
            /\ "outbound" \in DOMAIN resp' /\ resp'.outbound
            /\ api.current = "raise" \/ api.forecast = "raise" ) =>
              /\ weather_cache' = weather_cache
              /\ resp'.current = weather_cache.data
              /\ resp'.forecast = weather_cache.forecast
              /\ \A again \in ApiOutcomes : fetch_weather(weather_cache', now', again).outbound
    /\ IF weather_cache'.data = NoWeather
       THEN weather_cache'.forecast = NoWeather /\ weather_cache'.last_update = 0
       ELSE /\ weather_cache'.data.at = weather_cache'.last_update
            /\ weather_cache'.forecast # NoWeather
            /\ weather_cache'.forecast.at = weather_cache'.last_update
    ]_vars

\* C21 witness: a stale cache was refetched, a request raised, and the page was
\* served the pair cached by the earlier fetch
C21_Witness ==
    /\ resp.method = "GET" /\ "outbound" \in DOMAIN resp /\ resp.outbound
    /\ resp.current.kind = "report" /\ resp.current = weather_cache.data
    /\ resp.forecast = weather_cache.forecast
    /\ weather_cache.last_update = fetched_at
    /\ now - fetched_at >= WEATHER_CACHE_DURATION

\* C22 as stated: the home page and the weather page are rendered (status 200)
\* whatever the weather lookup returned, and without a weather report the home
\* page shows 'N/A' and 'Loading...'.
C22_PagesRenderWithoutWeather ==
    (resp.method = "GET" /\ "op" \in DOMAIN resp /\ resp.op \in {"home", "weather_page"}
       /\ "current" \in DOMAIN resp) =>
        /\ resp.status = 200
        /\ (resp.op = "home" /\ resp.current.kind # "report") =>
               resp.weather_temp = "N/A" /\ resp.weather_desc = "Loading..."

====
